---- MODULE Spec2Model ----
(***************************************************************************)
(* Model of judge-core's interactive judging core:                         *)
(*   src/judge-core/src/judge/interact.rs  (run_interact, pump_proxy_pipe) *)
(*   src/judge-core/src/judge/result.rs    (check_user_result, ...)        *)
(*                                                                         *)
(* The orchestrator (run_interact) is one sequential process whose         *)
(* position is pc.  The two sandboxed children, their listeners and the    *)
(* kernel's pipes are the environment.                                     *)
(***************************************************************************)
EXTENDS Integers, Sequences, FiniteSets, TLC

---------------------------------------------------------------------------
(* Bounds of the model *)

\* number of bytes the user program writes to its stdout during a run
MaxOutUser == 2

\* number of bytes the interactor writes to its stdout during a run
MaxOutInteractor == 1

\* size of the pump's buffer; the source uses 1024 (interact.rs:28), the
\* model scales it down
BufSize == 1

\* capacity of a proxy pipe beyond one pump buffer (a pipe always takes at
\* least one whole buffer: 1024 <= PIPE_BUF)
PipeSlack == 0

\* largest duration (in whole time units) drawn for the pure functions
MaxTime == 2

\* largest number of bytes of a file given to compare_files
MaxFileLen == 3

---------------------------------------------------------------------------
(* Program constants *)

\* soft CPU limit of the configuration the test runs with: cpu_limit: Some((1, 2))
CpuLimit == 1

\* the checker's exit status that means "wrong answer"
WrongAnswerStatus == 256

---------------------------------------------------------------------------

PipeCap == BufSize + PipeSlack

Kids == {"user", "interactor"}

Peer(c) == IF c = "user" THEN "interactor" ELSE "user"

\* the k-th byte child c writes to its stdout
Byte(c, k) == <<c, k>>

MaxOut(c) == IF c = "user" THEN MaxOutUser ELSE MaxOutInteractor

Min(a, b) == IF a < b THEN a ELSE b

\* descriptors registered with epoll
ProxyFd(c) == IF c = "user" THEN "proxy_read_user" ELSE "proxy_read_interactor"
ExitFd(c) == IF c = "user" THEN "user_exit_read" ELSE "interactor_exit_read"
FdKid(fd) == IF fd \in {"proxy_read_user", "user_exit_read"} THEN "user" ELSE "interactor"
IsExitFd(fd) == fd \in {"user_exit_read", "interactor_exit_read"}

\* what a listener may put on its exit-report pipe: a well-formed
\* ProcessExitMessage (with the child's exit status and CPU time), or a line
\* that is not one
ReportKinds == {"ok", "badjson", "empty", "notutf8"}
ExitStatuses == {0, 1}
CpuTimes == {CpuLimit, CpuLimit + 1}
NoReport == [kind |-> "none", exit_status |-> 0, user_time |-> 0, system_time |-> 0]
Reports(c) ==
    IF c = "user"
    THEN {[kind |-> "ok", exit_status |-> s, user_time |-> t, system_time |-> 0] :
             s \in ExitStatuses, t \in CpuTimes}
         \cup {[kind |-> k, exit_status |-> 0, user_time |-> 0, system_time |-> 0] :
                  k \in ReportKinds \ {"ok"}}
    ELSE {[kind |-> k, exit_status |-> 0, user_time |-> 0, system_time |-> 0] :
             k \in ReportKinds}

VARIABLES
    pc,             \* position of run_interact
    events,         \* events of the current epoll batch not yet dispatched
    exited,         \* user_exited / interactor_exited of the current iteration
    cur,            \* the child whose descriptor the current handler serves
    buf,            \* &buf[..nread] of the running pump
    child,          \* "unspawned" | "running" | "exited", per child
    nWritten,       \* bytes each child has written to its stdout
    outPipe,        \* child stdout -> proxy_read_<child>
    inPipe,         \* proxy_write_<child> -> child stdin
    endsClosed,     \* the child's pipe ends are closed in every process
    exitPipe,       \* "none" | "partial" | "line": content of the exit-report pipe
    report,         \* the line read from the child's exit-report pipe
    exitFdOpen,     \* <child>_exit_read is still open in the orchestrator
    parsed,         \* history: the child's ProcessExitMessage was parsed
    transcript,     \* contents of the output file
    readLog,        \* history: bytes the pumps read, in read order
    delivered,      \* history: bytes written into each child's stdin pipe
    fwdFailed,      \* history: a forwarding write returned an error
    checkerPath,    \* runner_config.custom_checker_path was found to be Some
    checkerSpawned, \* the checker sandbox was spawned
    result,         \* "running" | "Ok" | "Err" | "panic": outcome of run_interact
    openFds,        \* descriptors the orchestrator holds open
    nonBlocking,    \* descriptors with O_NONBLOCK set
    registered,     \* descriptors registered with epoll
    exitFdSet,      \* listeners that were given their exit-report write end
    readFailed,     \* history: a read of a proxy pipe failed (not EAGAIN)
    call            \* the last call of a pure function and what it returned

vars == <<pc, events, exited, cur, buf, child, nWritten, outPipe, inPipe,
          endsClosed, exitPipe, report, exitFdOpen, parsed, transcript,
          readLog, delivered, fwdFailed, checkerPath, checkerSpawned, result,
          openFds, nonBlocking, registered, exitFdSet, readFailed, call>>

\* the descriptor tables
fdVars == <<openFds, nonBlocking, registered, exitFdSet>>

orchVars == <<pc, events, exited, cur, buf, exitFdOpen, parsed, transcript,
              readLog, delivered, fwdFailed, checkerSpawned, result, fdVars,
              readFailed>>

NoCall == [fn |-> "none"]

---------------------------------------------------------------------------
(* Pure functions of result.rs *)

NoLimit == [some |-> FALSE, v |-> 0]
SomeLimit(t) == [some |-> TRUE, v |-> t]

\* get_run_time: user_time + system_time
get_run_time(raw_info) == raw_info.user_time + raw_info.system_time

\* check_user_result with the comparison `run_time >= time_limit`
check_user_result_ge(time_limit, raw_info) ==
    IF time_limit.some /\ get_run_time(raw_info) >= time_limit.v
    THEN "TimeLimitExceeded"
    ELSE IF raw_info.exit_status = 0 THEN "None" ELSE "RuntimeError"

\* check_user_result: "None" stands for Option::None; time_limit is what
\* get_cpu_limit_duration() returned
check_user_result(time_limit, raw_info) ==
    IF time_limit.some /\ get_run_time(raw_info) > time_limit.v
    THEN "TimeLimitExceeded"
    ELSE IF raw_info.exit_status = 0 THEN "None" ELSE "RuntimeError"

\* check_checker_result with the status shifted down before the match
check_checker_result_shifted(raw_info) ==
    IF raw_info.exit_status = 0 THEN "Accepted"
    ELSE IF raw_info.exit_status = 1 THEN "WrongAnswer"
    ELSE "SystemError"

check_checker_result(raw_info) ==
    IF raw_info.exit_status = 0 THEN "Accepted"
    ELSE IF raw_info.exit_status = WrongAnswerStatus THEN "WrongAnswer"
    ELSE "SystemError"

---------------------------------------------------------------------------
(* compare_files of utils.rs.  A file is a sequence of characters. *)

FileChars == {"a", " ", "\n"}

\* BufRead::lines(): the pieces between newlines; a final newline ends the
\* last line and does not start an empty one
RECURSIVE SplitLines(_, _, _)
SplitLines(s, i, line) ==
    IF i > Len(s) THEN (IF line = <<>> THEN <<>> ELSE <<line>>)
    ELSE IF s[i] = "\n" THEN <<line>> \o SplitLines(s, i + 1, <<>>)
    ELSE SplitLines(s, i + 1, Append(line, s[i]))

lines(file) == SplitLines(file, 1, <<>>)

\* str::trim_end
RECURSIVE trim_end(_)
trim_end(line) ==
    IF line # <<>> /\ line[Len(line)] = " "
    THEN trim_end(SubSeq(line, 1, Len(line) - 1))
    ELSE line

\* file1.lines().zip(file2.lines()).all(|(line1, line2)| ..): zip ends with
\* the shorter of the two
compare_files(file1, file2) ==
    LET l1 == lines(file1)
        l2 == lines(file2)
    IN \A i \in 1..Min(Len(l1), Len(l2)) : trim_end(l1[i]) = trim_end(l2[i])

---------------------------------------------------------------------------
(* State at the entry of run_interact: nothing is created yet.  The setup  *)
(* (lines 67-143) runs step by step; any step may fail and return early.  *)

\* the steps of the setup, in program order
SetupOrderSpawnFirst ==
    <<"pipes", "nonblock", "epoll_proxy", "spawn_user", "exit_pipes", "output",
      "spawn_interactor">>

SetupOrder ==
    <<"pipes", "nonblock", "epoll_proxy", "exit_pipes", "output", "spawn_user",
      "spawn_interactor">>

SetupSteps == {SetupOrder[i] : i \in 1..Len(SetupOrder)}

StepIndex(s) == CHOOSE i \in 1..Len(SetupOrder) : SetupOrder[i] = s

AfterStep(s) ==
    IF StepIndex(s) = Len(SetupOrder) THEN "wait" ELSE SetupOrder[StepIndex(s) + 1]

Init ==
    /\ pc = SetupOrder[1]
    /\ events = {}
    /\ exited = [c \in Kids |-> FALSE]
    /\ cur = "user"
    /\ buf = <<>>
    /\ child = [c \in Kids |-> "unspawned"]
    /\ nWritten = [c \in Kids |-> 0]
    /\ outPipe = [c \in Kids |-> <<>>]
    /\ inPipe = [c \in Kids |-> <<>>]
    /\ endsClosed = [c \in Kids |-> FALSE]
    /\ exitPipe = [c \in Kids |-> "none"]
    /\ report = [c \in Kids |-> NoReport]
    /\ exitFdOpen = [c \in Kids |-> TRUE]
    /\ parsed = [c \in Kids |-> FALSE]
    /\ transcript = <<>>
    /\ readLog = <<>>
    /\ delivered = [c \in Kids |-> <<>>]
    /\ fwdFailed = FALSE
    /\ checkerPath = FALSE
    /\ checkerSpawned = FALSE
    /\ result = "running"
    /\ openFds = {}
    /\ nonBlocking = {}
    /\ registered = {}
    /\ exitFdSet = {}
    /\ readFailed = FALSE
    /\ call = NoCall

---------------------------------------------------------------------------
(* Environment: the children, their listeners, the sandbox layer *)

\* a running child writes its next byte to its (non-blocking) stdout
ChildWrite(c) ==
    /\ pc # "done"
    /\ child[c] = "running"
    /\ nWritten[c] < MaxOut(c)
    /\ Len(outPipe[c]) < PipeCap
    /\ outPipe' = [outPipe EXCEPT ![c] = Append(@, Byte(c, nWritten[c] + 1))]
    /\ nWritten' = [nWritten EXCEPT ![c] = @ + 1]
    /\ UNCHANGED <<orchVars, child, inPipe, endsClosed, exitPipe, report, checkerPath, call>>

\* a running child reads one byte from its stdin
ChildRead(c) ==
    /\ pc # "done"
    /\ child[c] = "running"
    /\ inPipe[c] # <<>>
    /\ inPipe' = [inPipe EXCEPT ![c] = Tail(@)]
    /\ UNCHANGED <<orchVars, child, nWritten, outPipe, endsClosed, exitPipe, report, checkerPath, call>>

\* a child terminates
ChildExit(c) ==
    /\ pc # "done"
    /\ child[c] = "running"
    /\ child' = [child EXCEPT ![c] = "exited"]
    /\ UNCHANGED <<orchVars, nWritten, outPipe, inPipe, endsClosed, exitPipe, report, checkerPath, call>>

\* the listener writes its one line to the exit-report pipe, whole or in
\* two chunks (exactly one line per child: none follows the one that was read)
ListenerWrite(c) ==
    /\ pc # "done"
    /\ child[c] = "exited"
    /\ c \in exitFdSet
    /\ exitFdOpen[c]
    /\ \/ /\ exitPipe[c] = "none"
          /\ \E s \in {"partial", "line"} : exitPipe' = [exitPipe EXCEPT ![c] = s]
       \/ /\ exitPipe[c] = "partial"
          /\ exitPipe' = [exitPipe EXCEPT ![c] = "line"]
    /\ UNCHANGED <<orchVars, child, nWritten, outPipe, inPipe, endsClosed, report, checkerPath, call>>

\* the last copy of the dead child's stdin and stdout descriptors goes away
CloseChildEnds(c) ==
    /\ pc # "done"
    /\ child[c] = "exited"
    /\ ~endsClosed[c]
    /\ endsClosed' = [endsClosed EXCEPT ![c] = TRUE]
    /\ UNCHANGED <<orchVars, child, nWritten, outPipe, inPipe, exitPipe, report, checkerPath, call>>

\* (the environment is followed only while run_interact runs: pc # "done")
Environment ==
    \E c \in Kids :
        \/ ChildWrite(c)
        \/ ChildRead(c)
        \/ ChildExit(c)
        \/ ListenerWrite(c)
        \/ CloseChildEnds(c)

---------------------------------------------------------------------------
(* The orchestrator: run_interact *)

envVars == <<child, nWritten, outPipe, endsClosed, exitPipe, report, checkerPath, call>>

ProxyWriteFd(c) == IF c = "user" THEN "proxy_write_user" ELSE "proxy_write_interactor"

\* the four data pipes: (read end, write end)
DataPipeFds ==
    {"proxy_read_user", "user_write_proxy", "proxy_read_interactor",
     "interactor_write_proxy", "user_read_proxy", "proxy_write_user",
     "interactor_read_proxy", "proxy_write_interactor"}

ExitPipeFds ==
    {"user_exit_read", "user_exit_write", "interactor_exit_read", "interactor_exit_write"}

\* the descriptors set_non_blocking is called on
NonBlockSet ==
    {"user_write_proxy", "interactor_write_proxy", "proxy_read_user", "proxy_read_interactor"}

\* what a return (or an unwinding panic) of run_interact releases: the output
\* File is the only owned handle, every other descriptor is a raw integer
AtReturn(fds) == fds \ {"output_file"}

\* the descriptors a setup step opens
Opened(step) ==
    IF step = "pipes" THEN DataPipeFds
    ELSE IF step = "epoll_proxy" THEN {"epoll_fd"}
    ELSE IF step = "exit_pipes" THEN ExitPipeFds
    ELSE IF step = "output" THEN {"output_file"}
    ELSE {}

\* the descriptors a setup step registers with epoll
Registers(step) ==
    IF step = "epoll_proxy" THEN {ProxyFd(c) : c \in Kids}
    ELSE IF step = "exit_pipes" THEN {ExitFd(c) : c \in Kids}
    ELSE {}

\* one step of the setup; each step ends in `?`
Setup ==
    /\ pc \in SetupSteps
    /\ \/ /\ pc' = AfterStep(pc)
          /\ openFds' = openFds \cup Opened(pc)
          /\ registered' = registered \cup Registers(pc)
          /\ nonBlocking' = IF pc = "nonblock" THEN nonBlocking \cup NonBlockSet ELSE nonBlocking
          /\ exitFdSet' = IF pc = "exit_pipes" THEN Kids ELSE exitFdSet
          /\ child' = IF pc = "spawn_user" THEN [child EXCEPT !["user"] = "running"]
                      ELSE IF pc = "spawn_interactor"
                      THEN [child EXCEPT !["interactor"] = "running"]
                      ELSE child
          /\ UNCHANGED result
       \/ /\ pc' = "done"
          /\ result' = "Err"
          /\ openFds' = AtReturn(openFds)
          /\ UNCHANGED <<registered, nonBlocking, exitFdSet, child>>
    /\ UNCHANGED <<events, exited, cur, buf, exitFdOpen, parsed, transcript, readLog,
                   delivered, fwdFailed, checkerSpawned, readFailed, inPipe,
                   nWritten, outPipe, endsClosed, exitPipe, report, checkerPath, call>>

\* descriptors epoll reports readable (level-triggered, EPOLLIN; a hang-up
\* is reported too)
Ready ==
    registered \cap
      ({ProxyFd(c) : c \in {k \in Kids : outPipe[k] # <<>> \/ endsClosed[k]}}
       \cup {ExitFd(c) : c \in {k \in Kids : exitFdOpen[k] /\ exitPipe[k] # "none"}})

\* epoll_wait(epoll_fd, &mut events, -1), then the two flags are declared
EpollWait ==
    /\ pc = "wait"
    /\ Ready # {}
    /\ events' = Ready
    /\ exited' = [c \in Kids |-> FALSE]
    /\ pc' = "dispatch"
    /\ UNCHANGED <<cur, buf, exitFdOpen, parsed, transcript, readLog, delivered,
                   fwdFailed, checkerSpawned, result, fdVars, readFailed, inPipe,
                   envVars>>

\* one turn of `for event in events.iter().take(num_events)`
Dispatch ==
    /\ pc = "dispatch"
    /\ \E fd \in events :
        /\ events' = events \ {fd}
        /\ cur' = FdKid(fd)
        /\ IF IsExitFd(fd)
           THEN /\ exited' = [exited EXCEPT ![FdKid(fd)] = TRUE]
                /\ pc' = "exit_read"
           ELSE /\ exited' = exited
                /\ pc' = "pump_read"
    /\ UNCHANGED <<buf, exitFdOpen, parsed, transcript, readLog, delivered,
                   fwdFailed, checkerSpawned, result, fdVars, readFailed, inPipe,
                   envVars>>

\* String::from_utf8(buf).unwrap(), then serde_json::from_str(..)?
ParseOutcome(kind) ==
    IF kind = "notutf8" THEN "panic"
    ELSE IF kind = "ok" THEN "Ok"
    ELSE "Err"

\* a single read instead of read_until: whatever has arrived is the line
ReadUntilFirstChunk(c) == exitPipe[c] # "none"

\* reader.read_until(b'\n', ..) returns: the line is complete, or (on a
\* non-blocking descriptor only) the next read would block
ReadUntilReturns(c) ==
    \/ exitPipe[c] = "line"
    \/ exitPipe[c] = "partial" /\ ExitFd(c) \in nonBlocking

\* reader.read_until(b'\n') on the exit descriptor, the drop of the File
\* (which closes the descriptor), and the parse
ExitRead ==
    /\ pc = "exit_read"
    /\ ReadUntilReturns(cur)
    /\ exitPipe' = [exitPipe EXCEPT ![cur] = "none"]
    /\ exitFdOpen' = [exitFdOpen EXCEPT ![cur] = FALSE]
    /\ registered' = registered \ {ExitFd(cur)}
    /\ IF exitPipe[cur] = "line"
       THEN \E line \in Reports(cur) :
            /\ report' = [report EXCEPT ![cur] = line]
            /\ LET o == ParseOutcome(line.kind) IN
                IF o = "Ok"
                THEN /\ parsed' = [parsed EXCEPT ![cur] = TRUE]
                     /\ pc' = "dispatch"
                     /\ result' = result
                     /\ openFds' = openFds \ {ExitFd(cur)}
                ELSE /\ parsed' = parsed
                     /\ pc' = "done"
                     /\ result' = o
                     /\ openFds' = AtReturn(openFds \ {ExitFd(cur)})
       ELSE /\ report' = report
            /\ parsed' = parsed
            /\ pc' = "done"
            /\ result' = "Err"
            /\ openFds' = AtReturn(openFds \ {ExitFd(cur)})
    /\ UNCHANGED <<events, exited, cur, buf, transcript, readLog, delivered,
                   fwdFailed, checkerSpawned, nonBlocking, exitFdSet, readFailed,
                   inPipe, child, nWritten, outPipe, endsClosed, checkerPath, call>>

\* read(from, &mut buf): data, end of file (Ok(0)) or EAGAIN (a blocking
\* descriptor waits for data instead)
PumpRead ==
    /\ pc = "pump_read"
    /\ IF outPipe[cur] # <<>>
       THEN LET n == Min(BufSize, Len(outPipe[cur])) IN
            /\ buf' = SubSeq(outPipe[cur], 1, n)
            /\ outPipe' = [outPipe EXCEPT ![cur] = SubSeq(@, n + 1, Len(@))]
            /\ readLog' = readLog \o SubSeq(outPipe[cur], 1, n)
            /\ pc' = "pump_fwd"
       ELSE IF endsClosed[cur]
       THEN /\ buf' = <<>>
            /\ pc' = "pump_fwd"
            /\ UNCHANGED <<outPipe, readLog>>
       ELSE /\ ProxyFd(cur) \in nonBlocking
            /\ buf' = <<>>
            /\ pc' = "dispatch"
            /\ UNCHANGED <<outPipe, readLog>>
    /\ UNCHANGED <<events, exited, cur, exitFdOpen, parsed, transcript, delivered,
                   fwdFailed, checkerSpawned, result, fdVars, readFailed, inPipe,
                   child, nWritten, endsClosed, exitPipe, report, checkerPath, call>>

\* read(from, &mut buf) fails with an error other than EAGAIN:
\* panic!("failed to read from pipe")
PumpReadFail ==
    /\ pc = "pump_read"
    /\ readFailed' = TRUE
    /\ result' = "panic"
    /\ pc' = "done"
    /\ openFds' = AtReturn(openFds)
    /\ UNCHANGED <<events, exited, cur, buf, exitFdOpen, parsed, transcript, readLog,
                   delivered, fwdFailed, checkerSpawned, nonBlocking, registered,
                   exitFdSet, inPipe, envVars>>

\* write(to, &buf[..nread]).ok(): the write waits for room on a blocking
\* descriptor and fails with EAGAIN on a non-blocking one
PumpWriteFwd ==
    /\ pc = "pump_fwd"
    /\ LET to == Peer(cur) IN
        IF buf = <<>>
        THEN UNCHANGED <<inPipe, delivered, fwdFailed>>
        ELSE IF endsClosed[to]
        THEN /\ fwdFailed' = TRUE
             /\ UNCHANGED <<inPipe, delivered>>
        ELSE IF Len(inPipe[to]) + Len(buf) <= PipeCap
        THEN /\ inPipe' = [inPipe EXCEPT ![to] = @ \o buf]
             /\ delivered' = [delivered EXCEPT ![to] = @ \o buf]
             /\ UNCHANGED fwdFailed
        ELSE /\ ProxyWriteFd(to) \in nonBlocking
             /\ fwdFailed' = TRUE
             /\ UNCHANGED <<inPipe, delivered>>
    /\ pc' = "pump_out"
    /\ UNCHANGED <<events, exited, cur, buf, exitFdOpen, parsed, transcript,
                   readLog, checkerSpawned, result, fdVars, readFailed, envVars>>

\* the bytes write(output, &buf[..nread]) appends to the output file
OutputChunkShort(b, nread) == SubSeq(b, 1, nread - 1)

OutputChunk(b, nread) == SubSeq(b, 1, nread)

PumpWriteOut ==
    /\ pc = "pump_out"
    /\ transcript' = transcript \o OutputChunk(buf, Len(buf))
    /\ buf' = <<>>
    /\ pc' = "pump_read"
    /\ UNCHANGED <<events, exited, cur, exitFdOpen, parsed, readLog, delivered,
                   fwdFailed, checkerSpawned, result, fdVars, readFailed, inPipe,
                   envVars>>

\* if user_exited && interactor_exited { break; }
LoopExitCondEither(u, i) == u \/ i

LoopExitCond(u, i) == u /\ i

LoopCheck ==
    /\ pc = "dispatch"
    /\ events = {}
    /\ pc' = IF LoopExitCond(exited["user"], exited["interactor"]) THEN "checker" ELSE "wait"
    /\ UNCHANGED <<events, exited, cur, buf, exitFdOpen, parsed, transcript,
                   readLog, delivered, fwdFailed, checkerSpawned, result, fdVars,
                   readFailed, inPipe, envVars>>

\* what run_interact returns after the loop
CheckerOutcomeAlwaysOk(path) == "Ok"

CheckerOutcome(path) == IF path THEN "Ok" ELSE "Err"

\* after the loop: the checker is spawned when custom_checker_path is Some
\* (the configuration is an input, read here for the first time)
CheckerStage ==
    /\ pc = "checker"
    /\ \E path \in BOOLEAN :
        /\ checkerPath' = path
        /\ checkerSpawned' = path
        /\ result' = CheckerOutcome(path)
    /\ pc' = "done"
    /\ openFds' = AtReturn(openFds)
    /\ UNCHANGED <<events, exited, cur, buf, exitFdOpen, parsed, transcript,
                   readLog, delivered, fwdFailed, nonBlocking, registered,
                   exitFdSet, readFailed, inPipe, child, nWritten, outPipe,
                   endsClosed, exitPipe, report, call>>

Orchestrator ==
    \/ Setup
    \/ EpollWait
    \/ Dispatch
    \/ ExitRead
    \/ PumpRead
    \/ PumpReadFail
    \/ PumpWriteFwd
    \/ PumpWriteOut
    \/ LoopCheck
    \/ CheckerStage

Next == Environment \/ Orchestrator

Spec == Init /\ [][Next]_vars

\* The orchestrator is a running process: whenever it has a step to take it
\* takes it.  A listener writes the whole of its line.  Nothing is assumed of
\* the children: they may stop reading, stop writing or never exit.
LiveSpec ==
    /\ Spec
    /\ WF_vars(Orchestrator)
    /\ \A c \in Kids : WF_vars(ListenerWrite(c))

---------------------------------------------------------------------------
(* The pure functions of result.rs, applied to inputs drawn from bounded   *)
(* sets.  run_interact does not move in this specification.                *)

runVars == <<pc, events, exited, cur, buf, child, nWritten, outPipe, inPipe,
             endsClosed, exitPipe, report, exitFdOpen, parsed, transcript,
             readLog, delivered, fwdFailed, checkerPath, checkerSpawned, result,
             openFds, nonBlocking, registered, exitFdSet, readFailed>>

Durations == 0..MaxTime
TimeLimits == {NoLimit} \cup {SomeLimit(t) : t \in Durations}
UserStatuses == {-1, 0, 1, 137}
CheckerStatuses == {-1, 0, 1, 255, 256, 257, 512}

RawInfo(es, ut, st) == [exit_status |-> es, user_time |-> ut, system_time |-> st]

CallCheckUserResult ==
    /\ \E l \in TimeLimits, ut \in Durations, st \in Durations, es \in UserStatuses :
        call' = [fn |-> "check_user_result", time_limit |-> l,
                 raw_info |-> RawInfo(es, ut, st),
                 ret |-> check_user_result(l, RawInfo(es, ut, st))]
    /\ UNCHANGED runVars

CallCheckCheckerResult ==
    /\ \E es \in CheckerStatuses :
        call' = [fn |-> "check_checker_result", time_limit |-> NoLimit,
                 raw_info |-> RawInfo(es, 0, 0),
                 ret |-> check_checker_result(RawInfo(es, 0, 0))]
    /\ UNCHANGED runVars

Files == UNION {[1..n -> FileChars] : n \in 0..MaxFileLen}

CallCompareFiles ==
    /\ \E f1 \in Files, f2 \in Files :
        call' = [fn |-> "compare_files", file1 |-> f1, file2 |-> f2,
                 ret |-> compare_files(f1, f2)]
    /\ UNCHANGED runVars

FnNext == CallCheckUserResult \/ CallCheckCheckerResult \/ CallCompareFiles

FnSpec == Init /\ [][FnNext]_vars

---------------------------------------------------------------------------
(* Claims *)

BothParsed == parsed["user"] /\ parsed["interactor"]

\* C1: once both exit reports have been parsed the event loop exits: the
\* orchestrator is never back in the readiness wait with both reports parsed.
C1_LoopExitsOnceBothParsed == BothParsed => pc # "wait"

\* C2: the event loop never exits, the checker is never started and no result
\* is returned unless the exit reports of both children were read and parsed.
C2_ExitOnlyAfterBothParsed ==
    (pc = "checker" \/ checkerSpawned \/ result = "Ok")
        => (BothParsed /\ report["user"].kind = "ok" /\ report["interactor"].kind = "ok")

C2_Witness == result = "Ok" /\ checkerSpawned /\ BothParsed

\* bytes of child c in sequence s, in order
FromKid(s, c) == SelectSeq(s, LAMBDA b : b[1] = c)

\* everything child c has written to its stdout so far
Wrote(c) == [k \in 1..nWritten[c] |-> Byte(c, k)]

IsPrefix(s, t) == Len(s) <= Len(t) /\ SubSeq(t, 1, Len(s)) = s

\* the chunk a pump has read and not yet appended to the transcript
InFlight == IF pc \in {"pump_fwd", "pump_out"} THEN buf ELSE <<>>

FwdPending(c) == IF pc = "pump_fwd" /\ cur = c THEN buf ELSE <<>>

\* C4: in each direction the bytes written into the peer's stdin pipe are
\* exactly the bytes read from the source child's stdout, once each and in
\* order, none dropped.
C4_BidirectionalDelivery ==
    \A c \in Kids : delivered[Peer(c)] \o FwdPending(c) = FromKid(readLog, c)

\* the user's preliminary verdict under the configured CPU limit
UserPreliminary == check_user_result(SomeLimit(CpuLimit), report["user"])

\* C5: with a checker configured, after the event loop ended the checker is
\* spawned if and only if the user's preliminary verdict is absent.
C5_CheckerGating ==
    (pc = "done" /\ BothParsed /\ checkerPath)
        => (checkerSpawned <=> UserPreliminary = "None")

\* C6: the orchestrator does not stay forever in a pump's forwarding write or
\* in the read of an exit-report channel.
C6_NoBlockedForever ==
    /\ (pc = "pump_fwd") ~> (pc # "pump_fwd")
    /\ (pc = "exit_read") ~> (pc # "exit_read")

\* C7: check_user_result returns TimeLimitExceeded when user_time +
\* system_time is strictly greater than the limit, whatever the exit status;
\* otherwise RuntimeError when the exit status is nonzero; otherwise nothing.
\* A CPU time equal to the limit is not TimeLimitExceeded.
C7_PreliminaryVerdict ==
    call.fn = "check_user_result" =>
        LET t == call.raw_info.user_time + call.raw_info.system_time
            over == call.time_limit.some /\ t > call.time_limit.v
        IN /\ over => call.ret = "TimeLimitExceeded"
           /\ (~over /\ call.raw_info.exit_status # 0) => call.ret = "RuntimeError"
           /\ (~over /\ call.raw_info.exit_status = 0) => call.ret = "None"
           /\ (call.time_limit.some /\ t = call.time_limit.v)
                 => call.ret # "TimeLimitExceeded"

C7_Witness ==
    /\ call.fn = "check_user_result"
    /\ call.time_limit.some
    /\ call.raw_info.user_time + call.raw_info.system_time > call.time_limit.v
    /\ call.raw_info.user_time > 0 /\ call.raw_info.system_time > 0
    /\ call.raw_info.exit_status # 0
    /\ call.ret = "TimeLimitExceeded"

\* C8: check_checker_result returns Accepted for 0, WrongAnswer for 256 and
\* SystemError for every other exit status.
C8_CheckerMapping ==
    call.fn = "check_checker_result" =>
        /\ call.raw_info.exit_status = 0 => call.ret = "Accepted"
        /\ call.raw_info.exit_status = 256 => call.ret = "WrongAnswer"
        /\ call.raw_info.exit_status \notin {0, 256} => call.ret = "SystemError"

C8_Witness ==
    /\ call.fn = "check_checker_result"
    /\ call.raw_info.exit_status = 256
    /\ call.ret = "WrongAnswer"

\* C9: a failed forwarding write aborts the run with an error.
C9_WriteFailureFatal == fwdFailed => (pc = "done" /\ result = "Err")

\* C10: once a line that is no well-formed ProcessExitMessage was read from
\* an exit-report channel, run_interact has returned an error: it is not
\* looping, has not started the checker and has no run result.
C10_MalformedReportFatal ==
    \A c \in Kids :
        (~exitFdOpen[c] /\ report[c].kind # "ok")
            => (pc = "done" /\ result = "Err" /\ ~checkerSpawned)

\* C11: with no checker configured run_interact never returns a run result:
\* past the event loop it returns an error, and the checker is not spawned.
C11_NoCheckerIsError ==
    /\ result = "Ok" => checkerPath
    /\ (pc = "done" /\ BothParsed /\ ~checkerPath /\ ~readFailed) =>
          (result = "Err" /\ ~checkerSpawned)

C11_Witness == pc = "done" /\ BothParsed /\ ~checkerPath /\ result = "Err"

PumpPcs == {"pump_read", "pump_fwd", "pump_out"}

\* C12: a pump whose read returns zero bytes (the child closed its stdout)
\* returns control to the event loop.
C12_PumpReturnsOnEof ==
    (pc = "pump_read" /\ outPipe[cur] = <<>> /\ endsClosed[cur]) ~> (pc \notin PumpPcs)

\* C13: when the event loop exits, every byte either child wrote to its
\* stdout has been read by a pump, forwarded to the peer and appended to the
\* transcript.
C13_DrainedAtLoopExit ==
    pc = "checker" =>
        \A c \in Kids :
            /\ outPipe[c] = <<>>
            /\ FromKid(transcript, c) = Wrote(c)
            /\ delivered[Peer(c)] = Wrote(c)

\* C14: once a child is spawned, both proxy read ends and both exit-report
\* read ends are registered with epoll (an exit end until the loop has read
\* it) and both listeners have their exit-report write ends; a report that is
\* written is written to a registered descriptor.
C14_RegisteredBeforeSpawn ==
    /\ (\E c \in Kids : child[c] # "unspawned") =>
          \A k \in Kids :
              /\ ProxyFd(k) \in registered
              /\ ExitFd(k) \in registered \/ ~exitFdOpen[k]
              /\ k \in exitFdSet
    /\ \A k \in Kids : exitPipe[k] # "none" => ExitFd(k) \in registered

C14_Witness ==
    /\ pc = "spawn_interactor"
    /\ child["user"] = "exited"
    /\ exitPipe["user"] = "line"

LoopPcs == {"wait", "dispatch", "exit_read", "pump_read", "pump_fwd", "pump_out"}

\* C15: while the event loop runs, the four read descriptors it monitors are
\* open.
C15_ReadEndsOpenInLoop ==
    pc \in LoopPcs =>
        {"proxy_read_user", "proxy_read_interactor", "user_exit_read",
         "interactor_exit_read"} \subseteq openFds

\* C16: when run_interact has returned, on any path, every descriptor it
\* created is closed.
C16_DescriptorHygiene ==
    (pc = "done" /\ result \in {"Ok", "Err"}) => openFds = {}

\* C17: after the pipe setup and before the children are spawned, exactly the
\* four read ends the loop monitors are non-blocking.
C17_BlockingModes ==
    pc = "spawn_user" =>
        nonBlocking = {"proxy_read_user", "proxy_read_interactor", "user_exit_read",
                       "interactor_exit_read"}

\* C18: the read of an exit-report channel ends only when the whole line has
\* arrived; what is then parsed is the complete line (a well-formed line is
\* parsed, only a malformed line is an error), and a channel that was read is
\* not read again.
C18_ExitReportWhole ==
    [][/\ (pc = "exit_read" /\ pc' # "exit_read") =>
             /\ exitPipe[cur] = "line"
             /\ parsed'[cur] <=> report'[cur].kind = "ok"
             /\ result' = "Err" => report'[cur].kind \in {"badjson", "empty"}
       /\ \A c \in Kids :
             ~exitFdOpen[c] => ~(pc # "exit_read" /\ pc' = "exit_read" /\ cur' = c)
      ]_vars

C18_Witness == pc = "exit_read" /\ exitPipe[cur] = "partial"

\* C19: a failed read of a proxy pipe reaches the caller of run_interact as
\* an error result.
C19_ReadErrorIsErr == readFailed => (pc = "done" /\ result = "Err")

\* C20: compare_files returns true only if both files have the same number of
\* lines and every pair of lines is equal after removing trailing whitespace.
C20_CompareFilesEquality ==
    (call.fn = "compare_files" /\ call.ret) =>
        /\ Len(lines(call.file1)) = Len(lines(call.file2))
        /\ \A i \in 1..Len(lines(call.file1)) :
              trim_end(lines(call.file1)[i]) = trim_end(lines(call.file2)[i])

====
